---- MODULE Spec2Model ----
(***************************************************************************)
(* lexcode: an order-preserving binary codec.  The model covers the varint *)
(* sub-codec (varint.rs), the Serializer (ser.rs) and the Deserializer     *)
(* (de.rs).                                                                *)
(*                                                                         *)
(* Machine integers keep their width: a value of an n-byte integer type is *)
(* the sequence of its n bytes, most significant first (a u128 / i128 is a *)
(* sequence of 16 bytes, signed types in two's complement).  usize         *)
(* quantities (levels, lengths, shift counts) are small and are plain      *)
(* integers.                                                               *)
(***************************************************************************)
EXTENDS Integers, Sequences, FiniteSets, TLC

\* ───────────────────────── machine arithmetic ─────────────────────────

\* Number of bytes of a u128 / i128.
WordBytes == 16

Byte == 0..255

\* x & y, x | y, !x on u8.
And8(x, y) ==
  LET b[k \in 0..8] ==
        IF k = 8 THEN 0
        ELSE ((x \div (2^k)) % 2) * ((y \div (2^k)) % 2) * (2^k) + b[k + 1]
  IN  b[0]

Or8(x, y) == x + y - And8(x, y)

Not8(x) == 255 - x

\* u8::leading_ones
RECURSIVE LeadingOnes8(_)
LeadingOnes8(b) == IF b < 128 THEN 0 ELSE 1 + LeadingOnes8((b * 2) % 256)

\* A byte sequence given index by index, as a sequence value.
Seq8(f) == f \o <<>>

\* The n-byte word of a small natural number (x < 2^24).
FromNat(x, n) ==
  Seq8([i \in 1..n |-> IF n - i >= 3 THEN 0 ELSE (x \div (256^(n - i))) % 256])

ZeroWord == Seq8([i \in 1..WordBytes |-> 0])

\* u128::MAX
MaxWord == Seq8([i \in 1..WordBytes |-> 255])

\* a < b on unsigned words of equal width.
ULt(a, b) ==
  \E i \in 1..Len(a) : a[i] < b[i] /\ \A j \in 1..(i - 1) : a[j] = b[j]

\* a + b on words of equal width: the wrapped sum and whether it overflowed.
AddWord(a, b) ==
  LET n == Len(a)
      c[i \in 1..(n + 1)] ==
        IF i = n + 1 THEN 0 ELSE (a[i] + b[i] + c[i + 1]) \div 256
  IN  [sum |-> Seq8([i \in 1..n |-> (a[i] + b[i] + c[i + 1]) % 256]),
       overflow |-> c[1] = 1]

\* a - b on words of equal width: the wrapped difference and whether it borrowed.
SubWord(a, b) ==
  LET n == Len(a)
      br[i \in 1..(n + 1)] ==
        IF i = n + 1 THEN 0
        ELSE IF a[i] - b[i] - br[i + 1] < 0 THEN 1 ELSE 0
  IN  [diff |-> Seq8([i \in 1..n |-> (a[i] - b[i] - br[i + 1] + 256) % 256]),
       overflow |-> br[1] = 1]

\* 1u128 << bits, for bits < 128.
Pow2Word(bits) ==
  Seq8([i \in 1..WordBytes |-> IF WordBytes - i = bits \div 8 THEN 2^(bits % 8) ELSE 0])

\* data >> (8 * k) on a u128.
ShrBytes(data, k) ==
  Seq8([i \in 1..WordBytes |-> IF i <= k THEN 0 ELSE data[i - k]])

\* (v << 8) | b on a u128: the top byte is shifted out.
ShlOrByte(v, b) ==
  Seq8([i \in 1..WordBytes |-> IF i = WordBytes THEN Or8(0, b) ELSE v[i + 1]])

AndWord(a, b) == Seq8([i \in 1..Len(a) |-> And8(a[i], b[i])])

NotWord(a) == Seq8([i \in 1..Len(a) |-> Not8(a[i])])

\* `x as u8` of a u128.
AsU8(w) == w[Len(w)]

\* ───────────────────────── varint.rs: level tables ─────────────────────

\* The tables are sequences: level l (0-based in the source) is element l + 1.
UNSIGNED_DATA_BITS ==
  <<7, 14, 21, 28, 35, 42, 49, 56, 71, 78, 85, 92, 99, 106, 113, 120, 128>>

compute_unsigned_offsets ==
  LET off[i \in 0..16] ==
        IF i = 0 THEN ZeroWord
        ELSE LET bits == UNSIGNED_DATA_BITS[i]
             IN  IF bits >= 128 THEN MaxWord
                 ELSE AddWord(off[i - 1], Pow2Word(bits)).sum
  IN  Seq8([l \in 1..17 |-> off[l - 1]])

UNSIGNED_OFFSETS == compute_unsigned_offsets

SIGNED_DATA_BITS ==
  <<6, 13, 20, 27, 34, 41, 48, 63, 70, 77, 84, 91, 98, 105, 112, 127>>

\* Mutant of compute_signed_offsets: the table of the unsigned widths is read.
compute_signed_offsets_unsigned_bits ==
  LET off[i \in 0..15] ==
        IF i = 0 THEN ZeroWord
        ELSE LET bits == UNSIGNED_DATA_BITS[i]
             IN  IF bits >= 128 THEN MaxWord
                 ELSE AddWord(off[i - 1], Pow2Word(bits)).sum
  IN  Seq8([l \in 1..16 |-> off[l - 1]])

compute_signed_offsets ==
  LET off[i \in 0..15] ==
        IF i = 0 THEN ZeroWord
        ELSE LET bits == SIGNED_DATA_BITS[i]
             IN  IF bits >= 128 THEN MaxWord
                 ELSE AddWord(off[i - 1], Pow2Word(bits)).sum
  IN  Seq8([l \in 1..16 |-> off[l - 1]])

SIGNED_OFFSETS == compute_signed_offsets

\* Mutant of find_level: `v <= offsets[level + 1]` for `v <`.
find_level_inclusive(v, offsets) ==
  LET last == Len(offsets) - 1
      le(a, b) == a = b \/ ULt(a, b)
  IN  IF \E level \in 0..(last - 1) : le(v, offsets[level + 2])
      THEN CHOOSE level \in 0..(last - 1) :
             /\ le(v, offsets[level + 2])
             /\ \A k \in 0..(level - 1) : ~le(v, offsets[k + 2])
      ELSE last

\* The first level whose upper bound exceeds v, or the last level.
find_level(v, offsets) ==
  LET last == Len(offsets) - 1
  IN  IF \E level \in 0..(last - 1) : ULt(v, offsets[level + 2])
      THEN CHOOSE level \in 0..(last - 1) :
             /\ ULt(v, offsets[level + 2])
             /\ \A k \in 0..(level - 1) : ~ULt(v, offsets[k + 2])
      ELSE last

\* ───────────────────────── varint.rs: helpers ──────────────────────────

leading_ones_in_7bits(v) == LeadingOnes8((v * 2) % 256)

\* Mutant of leading_ones_byte: `0xFF << (9 - n)`, one 1-bit short.
leading_ones_byte_short(n) ==
  IF n <= 1 THEN 0 ELSE IF n >= 9 THEN 255 ELSE (255 * (2^(9 - n))) % 256

leading_ones_byte(n) ==
  IF n = 0 THEN 0 ELSE IF n >= 8 THEN 255 ELSE (255 * (2^(8 - n))) % 256

leading_ones_7bit(n) == IF n = 0 THEN 0 ELSE leading_ones_byte(n) \div 2

\* Mutant of low_mask_u8: the mask is one bit short.
low_mask_u8_short(bits) ==
  IF bits = 0 THEN 0 ELSE IF bits >= 8 THEN 255 ELSE (2^(bits - 1)) - 1

low_mask_u8(bits) ==
  IF bits = 0 THEN 0 ELSE IF bits >= 8 THEN 255 ELSE (2^bits) - 1

low_mask_128(bits) ==
  IF bits = 0 THEN ZeroWord
  ELSE IF bits >= 128 THEN MaxWord
  ELSE SubWord(Pow2Word(bits), FromNat(1, WordBytes)).diff

extract_top_bits(data, extra_bytes, want) ==
  IF want = 0 THEN ZeroWord
  ELSE IF extra_bytes * 8 >= 128 THEN ZeroWord
  ELSE AndWord(ShrBytes(data, extra_bytes), low_mask_128(want))

\* Mutant of write_be_tail: `(0..=n)` for `(0..n)`, one more byte is written.
write_be_tail_extra(data, n) ==
  Seq8([j \in 1..(n + 1) |->
          LET i == (n + 1) - j
          IN  IF i * 8 >= 128 THEN 0 ELSE AsU8(ShrBytes(data, i))])

\* The bottom n bytes of data, big-endian.
write_be_tail(data, n) ==
  Seq8([j \in 1..n |->
          LET i == n - j
          IN  IF i * 8 >= 128 THEN 0 ELSE AsU8(ShrBytes(data, i))])

assemble_be(prefix, bytes) ==
  LET v[k \in 0..Len(bytes)] ==
        IF k = 0 THEN prefix ELSE ShlOrByte(v[k - 1], bytes[k])
  IN  v[Len(bytes)]

\* ───────────────────────── results ─────────────────────────────────────

\* Result<T>: Ok(value) with the number of bytes consumed, Err(error), or a
\* panic of the thread (index out of bounds, arithmetic overflow in a build
\* with overflow checks, a failed debug assertion).
Ok(v, n) == [kind |-> "Ok", err |-> "", value |-> v, consumed |-> n]

Err(e) == [kind |-> "Err", err |-> e, value |-> <<>>, consumed |-> 0]

Panic(why) == [kind |-> "Panic", err |-> why, value |-> <<>>, consumed |-> 0]

\* ───────────────────────── varint.rs: unsigned ─────────────────────────

\* encode_uint(v, out): the buffer after the call.
encode_uint(v, out) ==
  LET level == find_level(v, UNSIGNED_OFFSETS)
      data  == SubWord(v, UNSIGNED_OFFSETS[level + 1]).diff
      header ==
        IF level <= 7
        THEN <<Or8(leading_ones_byte(level),
                   AsU8(extract_top_bits(data, level, 7 - level)))>>
        ELSE IF level <= 15
        THEN <<255,
               Or8(leading_ones_byte(level - 8),
                   AsU8(extract_top_bits(data, level, 7 - (level - 8))))>>
        ELSE <<255, 255>>
  IN  (out \o header) \o write_be_tail(data, level)

\* Mutant of decode_uint: the length of the input is not compared with the
\* length of the encoding, and slicing the input panics.
decode_uint_unchecked(debug, input) ==
  IF Len(input) = 0 THEN Err("Eof")
  ELSE
    LET first == input[1] IN
    IF first = 255 /\ Len(input) < 2 THEN Err("Eof")
    ELSE
      LET hdr ==
            IF first # 255
            THEN LET n == LeadingOnes8(first)
                 IN  [level |-> n,
                      header_data |-> And8(first, low_mask_u8(7 - n)),
                      header_len |-> 1]
            ELSE LET second == input[2] IN
                 IF second # 255
                 THEN LET m == LeadingOnes8(second)
                      IN  [level |-> 8 + m,
                           header_data |-> And8(second, low_mask_u8(7 - m)),
                           header_len |-> 2]
                 ELSE [level |-> 16, header_data |-> 0, header_len |-> 2]
          total == hdr.header_len + hdr.level
      IN
      IF Len(input) < total THEN Panic("index")
      ELSE
        LET data == assemble_be(FromNat(hdr.header_data, WordBytes),
                                SubSeq(input, hdr.header_len + 1, total))
            s    == AddWord(data, UNSIGNED_OFFSETS[hdr.level + 1])
        IN  IF s.overflow /\ debug THEN Panic("overflow") ELSE Ok(s.sum, total)

\* decode_uint(input); debug: the build checks arithmetic overflow.
decode_uint(debug, input) ==
  IF Len(input) = 0 THEN Err("Eof")
  ELSE
    LET first == input[1] IN
    IF first = 255 /\ Len(input) < 2 THEN Err("Eof")
    ELSE
      LET hdr ==
            IF first # 255
            THEN LET n == LeadingOnes8(first)
                 IN  [level |-> n,
                      header_data |-> And8(first, low_mask_u8(7 - n)),
                      header_len |-> 1]
            ELSE LET second == input[2] IN
                 IF second # 255
                 THEN LET m == LeadingOnes8(second)
                      IN  [level |-> 8 + m,
                           header_data |-> And8(second, low_mask_u8(7 - m)),
                           header_len |-> 2]
                 ELSE [level |-> 16, header_data |-> 0, header_len |-> 2]
          total == hdr.header_len + hdr.level
      IN
      IF Len(input) < total THEN Err("Eof")
      ELSE
        LET data == assemble_be(FromNat(hdr.header_data, WordBytes),
                                SubSeq(input, hdr.header_len + 1, total))
            s    == AddWord(data, UNSIGNED_OFFSETS[hdr.level + 1])
        IN  IF s.overflow /\ debug THEN Panic("overflow") ELSE Ok(s.sum, total)

\* ───────────────────────── varint.rs: signed ───────────────────────────

\* i128::MIN
MinWord == Seq8([i \in 1..WordBytes |-> IF i = 1 THEN 128 ELSE 0])

\* v >= 0 on a two's complement word.
NonNegative(v) == v[1] < 128

\* -x on an i128: the wrapped result and whether it overflowed (x = MIN).
NegWord(x) ==
  [value |-> AddWord(NotWord(x), FromNat(1, WordBytes)).sum,
   overflow |-> x = MinWord]

\* encode_sint_magnitude(v, out): the buffer after the call.
encode_sint_magnitude(v, out) ==
  LET level == find_level(v, SIGNED_OFFSETS)
      data  == SubWord(v, SIGNED_OFFSETS[level + 1]).diff
      header ==
        IF level <= 6
        THEN <<Or8(leading_ones_7bit(level),
                   AsU8(extract_top_bits(data, level, 6 - level)))>>
        ELSE IF level <= 14
        THEN <<127,
               Or8(leading_ones_byte(level - 7),
                   AsU8(extract_top_bits(data, level, 7 - (level - 7))))>>
        ELSE <<127, 255, AsU8(extract_top_bits(data, 15, 7))>>
  IN  (out \o header) \o write_be_tail(data, level)

\* Mutant of encode_sint: a negative value has only its first byte complemented.
encode_sint_first_byte_only(v, out) ==
  LET start == Len(out) IN
  IF NonNegative(v)
  THEN LET o1 == encode_sint_magnitude(v, out)
       IN  [o1 EXCEPT ![start + 1] = Or8(@, 128)]
  ELSE LET magnitude == NegWord(AddWord(v, FromNat(1, WordBytes)).sum).value
           o1 == encode_sint_magnitude(magnitude, out)
           o2 == [o1 EXCEPT ![start + 1] = Or8(@, 128)]
       IN  [o2 EXCEPT ![start + 1] = Not8(@)]

\* Mutant of encode_sint: a negative value is encoded with the magnitude -v.
encode_sint_abs(v, out) ==
  LET start == Len(out) IN
  IF NonNegative(v)
  THEN LET o1 == encode_sint_magnitude(v, out)
       IN  [o1 EXCEPT ![start + 1] = Or8(@, 128)]
  ELSE LET magnitude == NegWord(v).value
           o1 == encode_sint_magnitude(magnitude, out)
           o2 == [o1 EXCEPT ![start + 1] = Or8(@, 128)]
       IN  Seq8([i \in 1..Len(o2) |-> IF i > start THEN Not8(o2[i]) ELSE o2[i]])

\* Mutant of encode_sint: the complement pass runs over the whole buffer.
encode_sint_complement_all(v, out) ==
  LET start == Len(out) IN
  IF NonNegative(v)
  THEN LET o1 == encode_sint_magnitude(v, out)
       IN  [o1 EXCEPT ![start + 1] = Or8(@, 128)]
  ELSE LET magnitude == NegWord(AddWord(v, FromNat(1, WordBytes)).sum).value
           o1 == encode_sint_magnitude(magnitude, out)
           o2 == [o1 EXCEPT ![start + 1] = Or8(@, 128)]
       IN  Seq8([i \in 1..Len(o2) |-> Not8(o2[i])])

\* encode_sint(v, out): the buffer after the call.
encode_sint(v, out) ==
  LET start == Len(out) IN
  IF NonNegative(v)
  THEN LET o1 == encode_sint_magnitude(v, out)
       IN  [o1 EXCEPT ![start + 1] = Or8(@, 128)]
  ELSE LET magnitude == NegWord(AddWord(v, FromNat(1, WordBytes)).sum).value
           o1 == encode_sint_magnitude(magnitude, out)
           o2 == [o1 EXCEPT ![start + 1] = Or8(@, 128)]
       IN  Seq8([i \in 1..Len(o2) |-> IF i > start THEN Not8(o2[i]) ELSE o2[i]])

decode_sint_magnitude(debug, sub, rest) ==
  IF sub = 127 /\ Len(rest) = 0 THEN Err("Eof")
  ELSE IF sub = 127 /\ rest[1] = 255 /\ Len(rest) < 2 THEN Err("Eof")
  ELSE
    LET hdr ==
          IF sub # 127
          THEN LET n == leading_ones_in_7bits(sub)
               IN  [level |-> n,
                    header_data |-> And8(sub, low_mask_u8(6 - n)),
                    extra_header_bytes |-> 0]
          ELSE LET second == rest[1] IN
               IF second # 255
               THEN LET m == LeadingOnes8(second)
                    IN  [level |-> 7 + m,
                         header_data |-> And8(second, low_mask_u8(7 - m)),
                         extra_header_bytes |-> 1]
               ELSE [level |-> 15,
                     header_data |-> And8(rest[2], 127),
                     extra_header_bytes |-> 2]
        data_start == hdr.extra_header_bytes
        data_end   == data_start + hdr.level
    IN
    IF Len(rest) < data_end THEN Err("Eof")
    ELSE
      LET data == assemble_be(FromNat(hdr.header_data, WordBytes),
                              SubSeq(rest, data_start + 1, data_end))
          s    == AddWord(data, SIGNED_OFFSETS[hdr.level + 1])
      IN  IF s.overflow /\ debug THEN Panic("overflow")
          ELSE Ok(s.sum, 1 + data_end)

\* Mutant of sint_total_len: the two-header forms are counted one byte short.
sint_total_len_short(sub, rest, complemented) ==
  IF sub # 127 THEN Ok(1 + leading_ones_in_7bits(sub), 0)
  ELSE IF Len(rest) = 0 THEN Err("Eof")
  ELSE LET second == IF complemented THEN Not8(rest[1]) ELSE rest[1]
       IN  IF second # 255 THEN Ok(1 + (7 + LeadingOnes8(second)), 0)
           ELSE Ok(3 + 15, 0)

\* Mutant of sint_total_len: level 15 is counted with two header bytes.
sint_total_len_two_headers(sub, rest, complemented) ==
  IF sub # 127 THEN Ok(1 + leading_ones_in_7bits(sub), 0)
  ELSE IF Len(rest) = 0 THEN Err("Eof")
  ELSE LET second == IF complemented THEN Not8(rest[1]) ELSE rest[1]
       IN  IF second # 255 THEN Ok(2 + (7 + LeadingOnes8(second)), 0)
           ELSE Ok(2 + 15, 0)

sint_total_len(sub, rest, complemented) ==
  IF sub # 127 THEN Ok(1 + leading_ones_in_7bits(sub), 0)
  ELSE IF Len(rest) = 0 THEN Err("Eof")
  ELSE LET second == IF complemented THEN Not8(rest[1]) ELSE rest[1]
       IN  IF second # 255 THEN Ok(2 + (7 + LeadingOnes8(second)), 0)
           ELSE Ok(3 + 15, 0)

decode_sint(debug, input) ==
  IF Len(input) = 0 THEN Err("Eof")
  ELSE
    LET positive == And8(input[1], 128) # 0 IN
    IF positive
    THEN LET first_sub == And8(input[1], 127)
             r == decode_sint_magnitude(debug, first_sub, Tail(input))
         IN  IF r.kind # "Ok" THEN r ELSE Ok(r.value, r.consumed)
    ELSE
      LET first_complemented == Not8(input[1])
          first_sub == And8(first_complemented, 127)
          tl == sint_total_len(first_sub, Tail(input), TRUE)
      IN
      IF tl.kind # "Ok" THEN tl
      ELSE
        LET total_len == tl.value IN
        IF Len(input) < total_len THEN Err("Eof")
        ELSE
          LET buf == Seq8([i \in 1..total_len |-> Not8(input[i])])
              sub == And8(buf[1], 127)
              r   == decode_sint_magnitude(debug, sub, Tail(buf))
          IN
          IF r.kind # "Ok" THEN r
          ELSE IF debug /\ r.consumed # total_len THEN Panic("assert")
          ELSE
            LET neg == NegWord(r.value)
                res == SubWord(neg.value, FromNat(1, WordBytes))
            IN  IF debug /\ (neg.overflow \/ neg.value = MinWord)
                THEN Panic("overflow")
                ELSE Ok(res.diff, total_len)

\* ───────────────────────── integer types ──────────────────────────────

UnsignedTypes == {"u8", "u16", "u32", "u64", "u128"}

SignedTypes == {"i8", "i16", "i32", "i64", "i128"}

IntTypes == UnsignedTypes \cup SignedTypes

IsSigned(ty) == ty \in SignedTypes

\* size_of::<ty>()
TypeBytes(ty) ==
  CASE ty \in {"u8", "i8"}     -> 1
    [] ty \in {"u16", "i16"}   -> 2
    [] ty \in {"u32", "i32"}   -> 4
    [] ty \in {"u64", "i64"}   -> 8
    [] ty \in {"u128", "i128"} -> 16

\* `v as uN` / `v as iN` to a type of n bytes, n >= Len(v): an unsigned source
\* is zero-extended, a signed one sign-extended.
ZeroExtend(v, n) ==
  Seq8([i \in 1..n |-> IF i <= n - Len(v) THEN 0 ELSE v[i - (n - Len(v))]])

SignExtend(v, n) ==
  Seq8([i \in 1..n |->
          IF i <= n - Len(v) THEN (IF v[1] >= 128 THEN 255 ELSE 0)
          ELSE v[i - (n - Len(v))]])

\* ───────────────────────── ser.rs: Serializer ──────────────────────────

\* Mutant of serialize_i8 .. serialize_i128: the value is zero-extended.
serialize_signed_zero_extended(v, out) == encode_sint(ZeroExtend(v, WordBytes), out)

\* serialize_i8 .. serialize_i128: the output after the call.
serialize_signed(v, out) == encode_sint(SignExtend(v, WordBytes), out)

\* Mutant of serialize_u8: the byte is always written raw.
serialize_u8_always_raw(v, raw, out) == Append(out, v[1])

\* serialize_u8
serialize_u8(v, raw, out) ==
  IF raw THEN Append(out, v[1]) ELSE encode_uint(ZeroExtend(v, WordBytes), out)

\* Mutant of serialize_u16 .. serialize_u128: the signed encoder is called.
serialize_unsigned_as_signed(v, out) == encode_sint(ZeroExtend(v, WordBytes), out)

\* serialize_u16 .. serialize_u128
serialize_unsigned(v, out) == encode_uint(ZeroExtend(v, WordBytes), out)

\* Mutant of serialize_with_sentinel: an embedded sentinel is escaped by
\* doubling it.
serialize_with_sentinel_doubled(data, sentinel, out) ==
  LET o[k \in 0..Len(data)] ==
        IF k = 0 THEN out
        ELSE IF data[k] = sentinel
             THEN Append(Append(o[k - 1], data[k]), sentinel)
             ELSE Append(o[k - 1], data[k])
  IN  Append(Append(o[Len(data)], sentinel), 0)

serialize_with_sentinel(data, sentinel, out) ==
  LET o[k \in 0..Len(data)] ==
        IF k = 0 THEN out
        ELSE IF data[k] = sentinel
             THEN Append(Append(o[k - 1], data[k]), 1)
             ELSE Append(o[k - 1], data[k])
  IN  Append(Append(o[Len(data)], sentinel), 0)

\* Sentinel of serialize_bytes.
BYTES_SENTINEL == 127

serialize_bytes(v, out) == serialize_with_sentinel(v, BYTES_SENTINEL, out)

\* to_bytes(&v) for an integer v of type ty: a new Serializer (empty output,
\* raw_byte_mode false), one serialize_* call, the output returned.
to_bytes_int(ty, v) ==
  IF IsSigned(ty) THEN serialize_signed(v, <<>>)
  ELSE IF ty = "u8" THEN serialize_u8(v, FALSE, <<>>)
  ELSE serialize_unsigned(v, <<>>)

\* to_bytes of a byte string (serde_bytes): one serialize_bytes call.
to_bytes_bytes(v) == serialize_bytes(v, <<>>)

\* ───────────────────────── de.rs: Deserializer ─────────────────────────

\* deserialize_u8 .. deserialize_u128 and deserialize_i8 .. deserialize_i128
\* on a Deserializer whose input is `inp`: the result (the visited value with
\* the bytes taken) and the remaining input.  Indexing or slicing past the
\* end of the input panics.
deserialize_int(ty, inp) ==
  LET n == TypeBytes(ty) IN
  IF Len(inp) < n THEN [res |-> Panic("index"), input |-> inp]
  ELSE
    LET bytes == SubSeq(inp, 1, n)
        rest  == SubSeq(inp, n + 1, Len(inp))
        val   == IF IsSigned(ty)
                 THEN \* from_be_bytes(..).wrapping_sub(1 << (8n - 1)) as iN
                      SubWord(bytes, Seq8([i \in 1..n |-> IF i = 1 THEN 128 ELSE 0])).diff
                 ELSE bytes
    IN  [res |-> Ok(val, n), input |-> rest]

\* Mutant of from_bytes: the remaining input is not looked at.
from_bytes_int_lenient(ty, s) == deserialize_int(ty, s)

\* from_bytes::<ty>(s) for an integer type ty.
from_bytes_int(ty, s) ==
  LET d == deserialize_int(ty, s) IN
  IF d.res.kind # "Ok" THEN d
  ELSE IF d.input = <<>> THEN d
  ELSE [res |-> Err("TrailingCharacters"), input |-> d.input]

\* ───────────────────────── bounds and inputs ──────────────────────────

\* Small magnitudes 0..MaxSmall are among the integer inputs.
MaxSmall == 40

\* Longest byte string appended after an encoding before it is decoded.
MaxTail == 1

\* Longest content a buffer holds before a varint is encoded into it.
MaxPrefix == 1

\* Longest byte string given to serialize_bytes.
MaxData == 2

\* All byte strings over `alphabet` of length at most n.
Strings(alphabet, n) ==
  UNION {{Seq8(f) : f \in [1..k -> alphabet]} : k \in 0..n}

TailBytes == {0, 127, 128, 255}

Tails == Strings(TailBytes, MaxTail)

TrailBytes == {0, 255}

Trails == Strings(TrailBytes, MaxTail)

PrefixBytes == {170}

Prefixes == Strings(PrefixBytes, MaxPrefix)

DataBytes == {0, 1, 16, 126, 127, 128, 255}

ByteStrings == Strings(DataBytes, MaxData)

OneWord == FromNat(1, WordBytes)

Inc(w) == AddWord(w, OneWord).sum

Dec(w) == SubWord(w, OneWord).diff

\* u128 inputs: the small values, the first two and the last value of every
\* length level, the limits of the narrower types, u128::MAX.
UIntInputs ==
  {FromNat(k, WordBytes) : k \in 0..MaxSmall}
  \cup UNION {{UNSIGNED_OFFSETS[l], Inc(UNSIGNED_OFFSETS[l]), Dec(UNSIGNED_OFFSETS[l])} :
                l \in 2..17}
  \cup UNION {{Pow2Word(k), Dec(Pow2Word(k))} : k \in {8, 16, 20, 32, 64, 100, 127}}
  \cup {MaxWord, Dec(MaxWord)}

\* Magnitudes of the i128 inputs (all at most i128::MAX).
SIntMagnitudes ==
  {FromNat(k, WordBytes) : k \in 0..MaxSmall}
  \cup UNION {{SIGNED_OFFSETS[l], Inc(SIGNED_OFFSETS[l]), Dec(SIGNED_OFFSETS[l])} :
                l \in 2..16}
  \cup UNION {{Pow2Word(k), Dec(Pow2Word(k)), Inc(Pow2Word(k))} :
                k \in {7, 15, 20, 31, 63, 100}}
  \cup {Dec(Pow2Word(127)), Dec(Dec(Pow2Word(127)))}

\* i128 inputs: m and -(m + 1) for every magnitude m, so i128::MIN and
\* i128::MAX are among them.
SIntInputs == SIntMagnitudes \cup {NotWord(m) : m \in SIntMagnitudes}

\* The low n bytes of a word.
LowBytes(w, n) == SubSeq(w, Len(w) - n + 1, Len(w))

\* The inputs of every integer type, as pairs <<type, value>>: the 128-bit
\* inputs that the type can hold.
TypedInputs ==
  UNION {{<<ty, LowBytes(x, TypeBytes(ty))>> :
            x \in {y \in UIntInputs :
                     ZeroExtend(LowBytes(y, TypeBytes(ty)), WordBytes) = y}} :
           ty \in UnsignedTypes}
  \cup
  UNION {{<<ty, LowBytes(x, TypeBytes(ty))>> :
            x \in {y \in SIntInputs :
                     SignExtend(LowBytes(y, TypeBytes(ty)), WordBytes) = y}} :
           ty \in SignedTypes}

\* ───────────────────────── state ───────────────────────────────────────

VARIABLES
  output,         \* Serializer.output; the `out` buffer of the varint encoders
  raw_byte_mode,  \* Serializer.raw_byte_mode
  input,          \* Deserializer.input; the slice given to a varint decoder
  result,         \* what the last decode call returned
  call,           \* the last call and its arguments
  frames          \* the tuple-struct frames the value's Serialize impls have open

vars == <<output, raw_byte_mode, input, result, call, frames>>

None == [kind |-> "None", err |-> "", value |-> <<>>, consumed |-> 0]

\* op: the call; ty: the type of the value (the target type of a decode);
\* v: the value encoded; src_ty: the type a decoded buffer was encoded from;
\* tail: the bytes that follow the encoding in the decoder's input (the whole
\* input when no encoder produced it);
\* start: the length of the buffer before the encoder was called.
Call(op, ty, v, src_ty, tail, start) ==
  [op |-> op, ty |-> ty, v |-> v, src_ty |-> src_ty, tail |-> tail, start |-> start]

Init ==
  /\ output = <<>>
  /\ raw_byte_mode = FALSE
  /\ input = <<>>
  /\ result = None
  /\ call = Call("new", "", <<>>, "", <<>>, 0)
  /\ frames = <<>>

\* ───────────────────────── to_bytes / from_bytes ───────────────────────

\* A behaviour is one top-level encode call followed by one decode call:
\* the calls share no state (every call builds its own Serializer or
\* Deserializer), so longer behaviours add nothing.

\* to_bytes(&v), v: i8 .. i128.
ToBytesSigned(ty, v) ==
  /\ call.op = "new"
  /\ ty \in SignedTypes
  /\ output' = serialize_signed(v, <<>>)
  /\ raw_byte_mode' = FALSE
  /\ input' = <<>>
  /\ result' = None
  /\ call' = Call("to_bytes", ty, v, "", <<>>, 0)
  /\ UNCHANGED frames

\* to_bytes(&v), v: u8.
ToBytesU8(ty, v) ==
  /\ call.op = "new"
  /\ ty = "u8"
  /\ output' = serialize_u8(v, FALSE, <<>>)
  /\ raw_byte_mode' = FALSE
  /\ input' = <<>>
  /\ result' = None
  /\ call' = Call("to_bytes", "u8", v, "", <<>>, 0)
  /\ UNCHANGED frames

\* to_bytes(&v), v: u16 .. u128.
ToBytesUnsigned(ty, v) ==
  /\ call.op = "new"
  /\ ty \in UnsignedTypes \ {"u8"}
  /\ output' = serialize_unsigned(v, <<>>)
  /\ raw_byte_mode' = FALSE
  /\ input' = <<>>
  /\ result' = None
  /\ call' = Call("to_bytes", ty, v, "", <<>>, 0)
  /\ UNCHANGED frames

\* to_bytes of a byte string.
ToBytesBytes(b) ==
  /\ call.op = "new"
  /\ output' = serialize_bytes(b, <<>>)
  /\ raw_byte_mode' = FALSE
  /\ input' = <<>>
  /\ result' = None
  /\ call' = Call("to_bytes", "bytes", b, "", <<>>, 0)
  /\ UNCHANGED frames

\* from_bytes::<ty>(s), s the bytes to_bytes returned followed by t.
FromBytesInt(ty, t) ==
  /\ call.op = "to_bytes"
  /\ call.ty \in IntTypes
  /\ IsSigned(ty) = IsSigned(call.ty)
  /\ LET r == from_bytes_int(ty, output \o t)
     IN  /\ result' = r.res
         /\ input' = r.input
  /\ call' = Call("from_bytes", ty, call.v, call.ty, t, 0)
  /\ UNCHANGED <<output, raw_byte_mode, frames>>

Next ==
  \/ \E p \in TypedInputs : ToBytesSigned(p[1], p[2])
  \/ \E p \in TypedInputs : ToBytesU8(p[1], p[2])
  \/ \E p \in TypedInputs : ToBytesUnsigned(p[1], p[2])
  \/ \E b \in ByteStrings : ToBytesBytes(b)
  \/ \E ty \in IntTypes, t \in Trails : FromBytesInt(ty, t)

Spec == Init /\ [][Next]_vars

\* ───────────────────────── the varint layer ────────────────────────────

\* A buffer with earlier content p (Vec::new(), buf.clear(), or the output
\* of a Serializer in the middle of a value).
NewBuffer(p) ==
  /\ output' = p
  /\ input' = <<>>
  /\ result' = None
  /\ call' = Call("new", "", <<>>, "", <<>>, 0)
  /\ UNCHANGED <<raw_byte_mode, frames>>

EncodeUint(v) ==
  /\ call.op = "new"
  /\ output' = encode_uint(v, output)
  /\ call' = Call("encode_uint", "u128", v, "", <<>>, Len(output))
  /\ UNCHANGED <<raw_byte_mode, input, result, frames>>

EncodeSint(v) ==
  /\ call.op = "new"
  /\ output' = encode_sint(v, output)
  /\ call' = Call("encode_sint", "i128", v, "", <<>>, Len(output))
  /\ UNCHANGED <<raw_byte_mode, input, result, frames>>

\* The bytes the last encoder call appended.
Appended == SubSeq(output, call.start + 1, Len(output))

\* decode_uint(&s), s the bytes just encoded followed by t.
DecodeUint(t, debug) ==
  /\ call.op = "encode_uint"
  /\ input' = Appended \o t
  /\ result' = decode_uint(debug, Appended \o t)
  /\ call' = [call EXCEPT !.op = "decode_uint", !.tail = t]
  /\ UNCHANGED <<output, raw_byte_mode, frames>>

\* decode_sint(&s), s the bytes just encoded followed by t.
DecodeSint(t, debug) ==
  /\ call.op = "encode_sint"
  /\ input' = Appended \o t
  /\ result' = decode_sint(debug, Appended \o t)
  /\ call' = [call EXCEPT !.op = "decode_sint", !.tail = t]
  /\ UNCHANGED <<output, raw_byte_mode, frames>>

NextVarint ==
  \/ \E p \in Prefixes : NewBuffer(p)
  \/ \E v \in UIntInputs : EncodeUint(v)
  \/ \E v \in SIntInputs : EncodeSint(v)
  \/ \E t \in Tails, debug \in BOOLEAN : DecodeUint(t, debug)
  \/ \E t \in Tails, debug \in BOOLEAN : DecodeSint(t, debug)

SpecVarint == Init /\ [][NextVarint]_vars

\* ───────────────────────── orders ──────────────────────────────────────

\* Byte-wise lexicographic order of byte strings (Vec<u8>: Ord): a proper
\* prefix is smaller.
LexLess(a, b) ==
  \/ /\ Len(a) < Len(b)
     /\ \A j \in 1..Len(a) : a[j] = b[j]
  \/ \E i \in 1..(IF Len(a) < Len(b) THEN Len(a) ELSE Len(b)) :
       /\ a[i] < b[i]
       /\ \A j \in 1..(i - 1) : a[j] = b[j]

Compare(a, b) == IF a = b THEN "eq" ELSE IF LexLess(a, b) THEN "lt" ELSE "gt"

\* a < b on two's complement words of equal width.
SLt(a, b) ==
  ULt([a EXCEPT ![1] = (@ + 128) % 256], [b EXCEPT ![1] = (@ + 128) % 256])

\* Numeric comparison of two values of integer type ty.
NumCompare(ty, x, y) ==
  IF x = y THEN "eq"
  ELSE IF (IF IsSigned(ty) THEN SLt(x, y) ELSE ULt(x, y)) THEN "lt" ELSE "gt"

\* The types of the same signedness that are wider than ty.
Wider(ty) ==
  {t \in IntTypes : IsSigned(t) = IsSigned(ty) /\ TypeBytes(t) > TypeBytes(ty)}

\* `v as ty2` for v of type ty, ty2 at least as wide.
Widen(ty, v, ty2) ==
  IF IsSigned(ty) THEN SignExtend(v, TypeBytes(ty2)) ELSE ZeroExtend(v, TypeBytes(ty2))

\* Whether v of type src is outside the range of the narrower type ty.
OutOfRange(src, v, ty) ==
  /\ TypeBytes(ty) < TypeBytes(src)
  /\ Widen(ty, LowBytes(v, TypeBytes(ty)), src) # v

\* The encodings of all inputs.
UIntEncodings == {<<b, encode_uint(b, <<>>)>> : b \in UIntInputs}

SIntEncodings == {<<b, encode_sint(b, <<>>)>> : b \in SIntInputs}

TypedEncodings == {<<p[1], p[2], to_bytes_int(p[1], p[2])>> : p \in TypedInputs}

BytesEncodings == {<<b, to_bytes_bytes(b)>> : b \in ByteStrings}

\* ───────────────────────── ser.rs: strings and frames ─────────────────

\* A String is its UTF-8 bytes (v.as_bytes()); the inputs are built from
\* whole characters, see StrInputs.

\* Mutant of serialize_str: the sentinel of byte strings is used.
serialize_str_bytes_sentinel(v, out) == serialize_with_sentinel(v, 127, out)

\* serialize_str
serialize_str(v, out) == serialize_with_sentinel(v, 0, out)

\* to_bytes(&s) for a String s.
to_bytes_str(v) == serialize_str(v, <<>>)

\* ───────────────────────── de.rs: framing ──────────────────────────────

\* The state of a Deserializer after a deserialize_* call: the call's result
\* and the input that remains.
De(res, inp) == [res |-> res, input |-> inp]

\* Error::Message(msg)
Message(msg) == Err("Message: " \o msg)

\* deserialize_bool
deserialize_bool(inp) ==
  IF Len(inp) = 0 THEN De(Panic("index"), inp)
  ELSE LET byte == inp[1]
           rest == Tail(inp)
       IN  IF byte = 0 THEN De(Ok(FALSE, 1), rest)
           ELSE IF byte = 1 THEN De(Ok(TRUE, 1), rest)
           ELSE De(Message("Invalid boolean value"), rest)

\* The loop of deserialize_with_sentinel: `inp` is self.input, `bytes` the
\* bytes collected so far, n the number of bytes taken so far.
RECURSIVE sentinel_loop(_, _, _, _)
sentinel_loop(sentinel, inp, bytes, n) ==
  IF Len(inp) = 0 THEN De(Panic("index"), inp)
  ELSE
    LET byte == inp[1]
        in1  == Tail(inp)
    IN  IF byte = sentinel
        THEN IF Len(in1) = 0 THEN De(Panic("index"), in1)
             ELSE LET next_byte == in1[1]
                      in2 == Tail(in1)
                  IN  IF next_byte = 0 THEN De(Ok(bytes, n + 2), in2)
                      ELSE IF next_byte = 1
                      THEN sentinel_loop(sentinel, in2, Append(bytes, sentinel), n + 2)
                      ELSE De(Message("Invalid encoding"), in2)
        ELSE sentinel_loop(sentinel, in1, Append(bytes, byte), n + 1)

\* deserialize_with_sentinel
deserialize_with_sentinel(sentinel, inp) == sentinel_loop(sentinel, inp, <<>>, 0)

\* Whether the byte is a UTF-8 continuation byte in lo..hi.
Cont(bytes, i, lo, hi) == i <= Len(bytes) /\ bytes[i] >= lo /\ bytes[i] <= hi

\* std::str::from_utf8(&bytes).is_ok(), checked from position i.
RECURSIVE Utf8From(_, _)
Utf8From(bytes, i) ==
  IF i > Len(bytes) THEN TRUE
  ELSE
    LET b == bytes[i] IN
    IF b < 128 THEN Utf8From(bytes, i + 1)
    ELSE IF b >= 194 /\ b <= 223
    THEN Cont(bytes, i + 1, 128, 191) /\ Utf8From(bytes, i + 2)
    ELSE IF b >= 224 /\ b <= 239
    THEN /\ Cont(bytes, i + 1, IF b = 224 THEN 160 ELSE 128,
                               IF b = 237 THEN 159 ELSE 191)
         /\ Cont(bytes, i + 2, 128, 191)
         /\ Utf8From(bytes, i + 3)
    ELSE IF b >= 240 /\ b <= 244
    THEN /\ Cont(bytes, i + 1, IF b = 240 THEN 144 ELSE 128,
                               IF b = 244 THEN 143 ELSE 191)
         /\ Cont(bytes, i + 2, 128, 191)
         /\ Cont(bytes, i + 3, 128, 191)
         /\ Utf8From(bytes, i + 4)
    ELSE FALSE

from_utf8_is_ok(bytes) == Utf8From(bytes, 1)

\* deserialize_str / deserialize_string
deserialize_str(inp) ==
  LET d == deserialize_with_sentinel(0, inp) IN
  IF d.res.kind # "Ok" THEN d
  ELSE IF from_utf8_is_ok(d.res.value) THEN d
  ELSE De(Message("Invalid UTF-8 string"), d.input)

\* deserialize_bytes / deserialize_byte_buf
deserialize_bytes(inp) == deserialize_with_sentinel(BYTES_SENTINEL, inp)

\* deserialize_u8: the element type of the composite shapes below.
deserialize_u8(inp) == deserialize_int("u8", inp)

\* deserialize_option with a u8 payload (Option<u8>): None is <<>>, Some(x)
\* is <<x>>.
deserialize_option(inp) ==
  IF Len(inp) = 0 THEN De(Panic("index"), inp)
  ELSE LET byte == inp[1]
           rest == Tail(inp)
       IN  IF byte = 0 THEN De(Ok(<<>>, 1), rest)
           ELSE IF byte = 1
           THEN LET d == deserialize_u8(rest)
                IN  IF d.res.kind # "Ok" THEN d
                    ELSE De(Ok(<<d.res.value>>, 1 + d.res.consumed), d.input)
           ELSE De(Message("Invalid option encoding"), rest)

\* deserialize_seq for a Vec<u8>: the visitor calls
\* SeqAccess::next_element_seed until it returns None.
RECURSIVE seq_loop(_, _, _)
seq_loop(inp, items, n) ==
  IF Len(inp) = 0 THEN De(Panic("index"), inp)
  ELSE LET byte == inp[1]
           rest == Tail(inp)
       IN  IF byte = 0 THEN De(Ok(items, n + 1), rest)
           ELSE IF byte = 1
           THEN LET d == deserialize_u8(rest)
                IN  IF d.res.kind # "Ok" THEN d
                    ELSE seq_loop(d.input, Append(items, d.res.value),
                                  n + 1 + d.res.consumed)
           ELSE De(Message("Invalid sequence encoding"), rest)

deserialize_seq(inp) == seq_loop(inp, <<>>, 0)

\* deserialize_map for a BTreeMap<u8, u8>: the visitor calls
\* MapAccess::next_key_seed and, after a key, next_value_seed.
RECURSIVE map_loop(_, _, _)
map_loop(inp, entries, n) ==
  IF Len(inp) = 0 THEN De(Panic("index"), inp)
  ELSE LET byte == inp[1]
           rest == Tail(inp)
       IN  IF byte = 0 THEN De(Ok(entries, n + 1), rest)
           ELSE IF byte = 1
           THEN LET k == deserialize_u8(rest) IN
                IF k.res.kind # "Ok" THEN k
                ELSE LET v == deserialize_u8(k.input) IN
                     IF v.res.kind # "Ok" THEN v
                     ELSE map_loop(v.input,
                                   Append(entries, <<k.res.value, v.res.value>>),
                                   n + 3)
           ELSE De(Message("Invalid map encoding"), rest)

deserialize_map(inp) == map_loop(inp, <<>>, 0)

\* deserialize_f32 (n = 4) / deserialize_f64 (n = 8); the value is the bit
\* pattern handed to from_bits, as big-endian bytes.
deserialize_float(n, inp) ==
  IF Len(inp) < n THEN De(Panic("index"), inp)
  ELSE LET bytes == SubSeq(inp, 1, n)
           rest  == SubSeq(inp, n + 1, Len(inp))
           v     == IF bytes[1] < 128 THEN NotWord(bytes)
                    ELSE [bytes EXCEPT ![1] = @ - 128]
       IN  De(Ok(v, n), rest)

\* deserialize_enum for the enum E4 of four variants, the second a unit
\* variant: four bytes are read as a big-endian u32 and handed to the visitor
\* in a U32Deserializer, whose variant access offers unit variants only.
deserialize_enum(inp) ==
  IF Len(inp) < 4 THEN De(Panic("index"), inp)
  ELSE LET bytes == SubSeq(inp, 1, 4)
           rest  == SubSeq(inp, 5, Len(inp))
       IN  IF ~(bytes[1] = 0 /\ bytes[2] = 0 /\ bytes[3] = 0 /\ bytes[4] < 4)
           THEN De(Message("invalid value: variant index"), rest)
           ELSE IF bytes[4] = 1
           THEN De(Ok([variant |-> "Unit", fields |-> <<>>], 4), rest)
           ELSE De(Message("invalid type: unit variant"), rest)

\* The shapes decoded below.
Shapes ==
  {"bool", "String", "ByteBuf", "Option<u8>", "Vec<u8>", "BTreeMap<u8,u8>", "u16"}

\* T::deserialize(&mut deserializer) for the shape T.
deserialize(shape, inp) ==
  CASE shape = "bool"            -> deserialize_bool(inp)
    [] shape = "String"          -> deserialize_str(inp)
    [] shape = "ByteBuf"         -> deserialize_bytes(inp)
    [] shape = "Option<u8>"      -> deserialize_option(inp)
    [] shape = "Vec<u8>"         -> deserialize_seq(inp)
    [] shape = "BTreeMap<u8,u8>" -> deserialize_map(inp)
    [] shape \in IntTypes        -> deserialize_int(shape, inp)
    [] shape = "f32"             -> deserialize_float(4, inp)
    [] shape = "f64"             -> deserialize_float(8, inp)
    [] shape = "E4"              -> deserialize_enum(inp)

\* from_bytes::<T>(s)
from_bytes(shape, s) ==
  LET d == deserialize(shape, s) IN
  IF d.res.kind # "Ok" THEN d
  ELSE IF d.input = <<>> THEN d
  ELSE De(Err("TrailingCharacters"), d.input)

\* ───────────────────────── fixed_bytes.rs ─────────────────────────────

\* A Serializer: its two fields.
Ser(out, raw) == [output |-> out, raw_byte_mode |-> raw]

\* serialize_tuple_struct(name, _len): raw_byte_mode after the call.
serialize_tuple_struct(name, raw) ==
  IF name = "lexcode::FixedBytes" THEN TRUE ELSE raw

\* Mutant of SerializeTupleStruct::end: the flag is left as it is.
tuple_struct_end_keeps_flag(raw) == raw

\* SerializeTupleStruct::end: raw_byte_mode after the call.
tuple_struct_end(raw) == FALSE

\* Mutant of <FixedBytes as Serialize>::serialize: the bytes are visited as
\* the fields of a tuple, which opens no FixedBytes frame.
FixedBytes_serialize_as_tuple(a, ser) ==
  LET o[k \in 0..Len(a)] ==
        IF k = 0 THEN ser.output
        ELSE serialize_u8(<<a[k]>>, ser.raw_byte_mode, o[k - 1])
  IN  Ser(o[Len(a)], ser.raw_byte_mode)

\* <FixedBytes<N> as Serialize>::serialize on the Serializer `ser`, a the
\* array: serialize_tuple_struct, serialize_field for every byte, end.
FixedBytes_serialize(a, ser) ==
  LET raw1 == serialize_tuple_struct("lexcode::FixedBytes", ser.raw_byte_mode)
      o[k \in 0..Len(a)] ==
        IF k = 0 THEN ser.output
        ELSE serialize_u8(<<a[k]>>, raw1, o[k - 1])
  IN  Ser(o[Len(a)], tuple_struct_end(raw1))

\* to_bytes(&FixedBytes(a)): the Serializer when to_bytes returns its output.
to_bytes_fixed(a) == FixedBytes_serialize(a, Ser(<<>>, FALSE))

\* deserialize_tuple(len, visitor) with FixedBytesVisitor: one
\* TupleAccess::next_element_seed, a deserialize_u8, for every slot.
RECURSIVE tuple_loop(_, _, _, _)
tuple_loop(inp, remaining, arr, n) ==
  IF remaining = 0 THEN De(Ok(arr, n), inp)
  ELSE LET d == deserialize_u8(inp)
       IN  IF d.res.kind # "Ok" THEN d
           ELSE tuple_loop(d.input, remaining - 1,
                           Append(arr, d.res.value[1]), n + 1)

\* <FixedBytes<N> as Deserialize>::deserialize
FixedBytes_deserialize(N, inp) == tuple_loop(inp, N, <<>>, 0)

\* from_bytes::<FixedBytes<N>>(s)
from_bytes_fixed(N, s) ==
  LET d == FixedBytes_deserialize(N, s) IN
  IF d.res.kind # "Ok" THEN d
  ELSE IF d.input = <<>> THEN d
  ELSE De(Err("TrailingCharacters"), d.input)

\* ───────────────────────── framing: inputs and actions ─────────────────

\* Most characters of a String input.
MaxChars == 3

\* Longest input given to from_bytes that no to_bytes call produced.
MaxRaw == 3

\* Longest array of a FixedBytes input over FixedByteVals.
MaxFixed == 2

\* The characters of the String inputs, as their UTF-8 bytes: U+0000, U+0001,
\* 'A', U+007F and U+00E9.
Chars == {<<0>>, <<1>>, <<65>>, <<127>>, <<195, 169>>}

RECURSIVE Flatten(_)
Flatten(ss) == IF ss = <<>> THEN <<>> ELSE Head(ss) \o Flatten(Tail(ss))

StrInputs == {Flatten(cs) : cs \in Strings(Chars, MaxChars)}

RawBytes == {0, 1, 2, 127, 255}

RawInputs == Strings(RawBytes, MaxRaw)

FixedByteVals == {0, 127, 128, 255}

\* Arrays of FixedBytes inputs: every one-byte array and the short arrays
\* over FixedByteVals (the empty one included).
FixedInputs == {<<b>> : b \in Byte} \cup Strings(FixedByteVals, MaxFixed)

\* to_bytes(&s), s: String.
ToBytesStr(s) ==
  /\ call.op = "new"
  /\ output' = serialize_str(s, <<>>)
  /\ raw_byte_mode' = FALSE
  /\ input' = <<>>
  /\ result' = None
  /\ call' = Call("to_bytes", "String", s, "", <<>>, 0)
  /\ UNCHANGED frames

\* to_bytes(&FixedBytes(a)).
ToBytesFixed(a) ==
  /\ call.op = "new"
  /\ LET ser == to_bytes_fixed(a)
     IN  /\ output' = ser.output
         /\ raw_byte_mode' = ser.raw_byte_mode
  /\ input' = <<>>
  /\ result' = None
  /\ call' = Call("to_bytes", "FixedBytes", a, "", <<>>, 0)
  /\ UNCHANGED frames

\* from_bytes::<String>(s) or from_bytes::<ByteBuf>(s), s the bytes to_bytes
\* returned for a value of that shape.
FromBytesFramed ==
  /\ call.op = "to_bytes"
  /\ call.ty \in {"String", "bytes"}
  /\ LET shape == IF call.ty = "String" THEN "String" ELSE "ByteBuf"
         r == from_bytes(shape, output)
     IN  /\ result' = r.res
         /\ input' = r.input
         /\ call' = Call("from_bytes", shape, call.v, call.ty, <<>>, 0)
  /\ UNCHANGED <<output, raw_byte_mode, frames>>

\* from_bytes::<FixedBytes<N>>(s), s the bytes to_bytes returned.
FromBytesFixed ==
  /\ call.op = "to_bytes"
  /\ call.ty = "FixedBytes"
  /\ LET r == from_bytes_fixed(Len(call.v), output)
     IN  /\ result' = r.res
         /\ input' = r.input
  /\ call' = Call("from_bytes", "FixedBytes", call.v, call.ty, <<>>, 0)
  /\ UNCHANGED <<output, raw_byte_mode, frames>>

\* from_bytes::<T>(s) on bytes s that need not be an encoding.
FromBytesRaw(shape, s) ==
  /\ call.op = "new"
  /\ LET r == from_bytes(shape, s)
     IN  /\ result' = r.res
         /\ input' = r.input
  /\ call' = Call("from_bytes_raw", shape, <<>>, "", s, 0)
  /\ UNCHANGED <<output, raw_byte_mode, frames>>

NextFraming ==
  \/ \E s \in StrInputs : ToBytesStr(s)
  \/ \E b \in ByteStrings : ToBytesBytes(b)
  \/ \E a \in FixedInputs : ToBytesFixed(a)
  \/ FromBytesFramed
  \/ FromBytesFixed
  \/ \E shape \in Shapes, s \in RawInputs : FromBytesRaw(shape, s)

SpecFraming == Init /\ [][NextFraming]_vars

\* The encodings of all String inputs.
StrEncodings == {<<s, to_bytes_str(s)>> : s \in StrInputs}

\* ───────────────────────── raw-byte-mode, call by call ────────────────

\* The shape of a value: a u8, or a tuple struct with its name and the
\* shapes of its fields.
U8 == [name |-> "u8", fields |-> <<>>]

TupleStruct(name, fields) == [name |-> name, fields |-> fields]

\* FixedBytes<n>: its Serialize impl visits n bytes in a frame of the
\* reserved name.
FixedBytesOf(n) == TupleStruct("lexcode::FixedBytes", [i \in 1..n |-> U8])

\* The types encoded: a u8, FixedBytes<n>, and derived tuple structs with a
\* FixedBytes<n> field before, after and between u8 fields, also nested.
Types ==
  {U8}
  \cup {FixedBytesOf(n) : n \in 0..MaxFixed}
  \cup UNION {{TupleStruct("Outer", <<FixedBytesOf(n), U8>>),
               TupleStruct("Outer", <<U8, FixedBytesOf(n), U8>>),
               TupleStruct("Wrapper",
                           <<TupleStruct("Outer", <<U8, FixedBytesOf(n)>>), U8>>)} :
                n \in 0..MaxFixed}

\* The u8 values visited.
U8Inputs == {<<0>>, <<127>>, <<128>>, <<255>>}

\* An open frame: its name, the shapes of the fields still to visit, and
\* raw_byte_mode when serialize_tuple_struct was called.
Frame(name, todo, entered_with) ==
  [name |-> name, todo |-> todo, entered_with |-> entered_with]

Top == frames[Len(frames)]

\* Whether the frame that is open on top is a FixedBytes frame.
InFixedBytes == frames # <<>> /\ Top.name = "lexcode::FixedBytes"

\* The value's Serialize impls can visit one more thing here: the value
\* itself at the top level, or a field still to visit in the open frame.
CanVisit ==
  IF frames = <<>> THEN call.op = "new" ELSE Top.todo # <<>>

\* The shape visited next: the value's (of type ty) at the top level, the
\* next field's in a frame.
NextShape(ty) == IF frames = <<>> THEN ty ELSE Head(Top.todo)

\* The frames after the visit of one field of the open frame.
Visited ==
  IF frames = <<>> THEN frames
  ELSE [frames EXCEPT ![Len(frames)].todo = Tail(@)]

\* serializer.serialize_tuple_struct(name, len), called by the derived impl
\* of a tuple struct or by FixedBytes::serialize.
SerializeTupleStruct(ty) ==
  /\ CanVisit
  /\ NextShape(ty).name # "u8"
  /\ raw_byte_mode' = serialize_tuple_struct(NextShape(ty).name, raw_byte_mode)
  /\ frames' = Append(Visited,
                      Frame(NextShape(ty).name, NextShape(ty).fields, raw_byte_mode))
  /\ call' = Call("serialize_tuple_struct", NextShape(ty).name, <<>>, "", <<>>,
                  Len(output))
  /\ UNCHANGED <<output, input, result>>

\* serialize_u8(v) for a u8 that is the value or a field of the open frame.
SerializeU8(ty, v) ==
  /\ CanVisit
  /\ NextShape(ty).name = "u8"
  /\ output' = serialize_u8(v, raw_byte_mode, output)
  /\ frames' = Visited
  /\ call' = Call("serialize_u8", IF frames = <<>> THEN "" ELSE Top.name,
                  v, "", <<>>, Len(output))
  /\ UNCHANGED <<raw_byte_mode, input, result>>

\* SerializeTupleStruct::end of the open frame, all its fields visited.
SerializeTupleStructEnd ==
  /\ frames # <<>>
  /\ Top.todo = <<>>
  /\ raw_byte_mode' = tuple_struct_end(raw_byte_mode)
  /\ frames' = SubSeq(frames, 1, Len(frames) - 1)
  /\ call' = Call("end", Top.name, Top, "", <<>>, Len(output))
  /\ UNCHANGED <<output, input, result>>

\* to_bytes returns serializer.output: the value has been visited.
ToBytesReturn ==
  /\ call.op \in {"serialize_u8", "end"}
  /\ frames = <<>>
  /\ call' = Call("to_bytes", "struct", <<>>, "", <<>>, 0)
  /\ UNCHANGED <<output, raw_byte_mode, input, result, frames>>

NextRaw ==
  \/ \E ty \in Types : SerializeTupleStruct(ty)
  \/ \E ty \in Types, v \in U8Inputs : SerializeU8(ty, v)
  \/ SerializeTupleStructEnd
  \/ ToBytesReturn

SpecRaw == Init /\ [][NextRaw]_vars

\* ───────────────────────── varint: short and truncated inputs ──────────

\* The values of test_uint_roundtrip_small, 0..=300.
SmallUInts == {FromNat(k, WordBytes) : k \in 0..300}

\* The values of test_sint_roundtrip_small, -300..=300 (and -301).
SmallSInts == SmallUInts \cup {NotWord(m) : m \in SmallUInts}

\* decode_uint(&s[..k]), s the bytes just encoded, k < s.len().
DecodeUintPrefix(k, debug) ==
  /\ call.op = "encode_uint"
  /\ k < Len(Appended)
  /\ input' = SubSeq(Appended, 1, k)
  /\ result' = decode_uint(debug, SubSeq(Appended, 1, k))
  /\ call' = [call EXCEPT !.op = "decode_uint_prefix"]
  /\ UNCHANGED <<output, raw_byte_mode, frames>>

\* decode_sint(&s[..k]), s the bytes just encoded, k < s.len().
DecodeSintPrefix(k, debug) ==
  /\ call.op = "encode_sint"
  /\ k < Len(Appended)
  /\ input' = SubSeq(Appended, 1, k)
  /\ result' = decode_sint(debug, SubSeq(Appended, 1, k))
  /\ call' = [call EXCEPT !.op = "decode_sint_prefix"]
  /\ UNCHANGED <<output, raw_byte_mode, frames>>

NextTruncated ==
  \/ \E v \in UIntInputs \cup SmallUInts : EncodeUint(v)
  \/ \E v \in SIntInputs \cup SmallSInts : EncodeSint(v)
  \/ \E k \in 0..17, debug \in BOOLEAN : DecodeUintPrefix(k, debug)
  \/ \E k \in 0..17, debug \in BOOLEAN : DecodeSintPrefix(k, debug)

SpecTruncated == Init /\ [][NextTruncated]_vars

\* ───────────────────────── varint: decoding arbitrary bytes ───────────

\* First and second bytes of the decoder inputs: every count of leading
\* 1-bits, with the other bits clear and set, and the complements.
HeadBytes ==
  {0, 1, 3, 7, 15, 31, 63, 64, 127, 128, 129, 191, 192, 224, 240, 248, 252, 254, 255}

ThirdBytes == {0, 127, 128, 255}

FillBytes == {0, 255}

\* Inputs of 19 bytes, longer than every encoding: two header bytes, a third
\* byte, and 16 equal bytes.
VarintInputs ==
  {Seq8(<<a, b, c>> \o [i \in 1..16 |-> f]) :
     a \in HeadBytes, b \in HeadBytes, c \in ThirdBytes, f \in FillBytes}

\* The build of a call: with or without overflow checks and debug assertions.
Build(debug) == IF debug THEN "debug" ELSE "release"

\* decode_uint(&s) on bytes s that need not be an encoding.
DecodeUintRaw(s, debug) ==
  /\ call.op = "new"
  /\ input' = s
  /\ result' = decode_uint(debug, s)
  /\ call' = Call("decode_uint_raw", Build(debug), <<>>, "", s, 0)
  /\ UNCHANGED <<output, raw_byte_mode, frames>>

\* decode_sint(&s) on bytes s that need not be an encoding.
DecodeSintRaw(s, debug) ==
  /\ call.op = "new"
  /\ input' = s
  /\ result' = decode_sint(debug, s)
  /\ call' = Call("decode_sint_raw", Build(debug), <<>>, "", s, 0)
  /\ UNCHANGED <<output, raw_byte_mode, frames>>

NextDecodeRaw ==
  \/ \E s \in VarintInputs, debug \in BOOLEAN : DecodeUintRaw(s, debug)
  \/ \E s \in VarintInputs, debug \in BOOLEAN : DecodeSintRaw(s, debug)

SpecDecodeRaw == Init /\ [][NextDecodeRaw]_vars

\* ───────────────────────── one buffer, many encode operations ────────

\* Longest buffer another value is encoded into.
MaxBuffer == 4

\* encode_uint(v, &mut out) on the buffer as it is.
AppendUint(v) ==
  /\ Len(output) < MaxBuffer
  /\ output' = encode_uint(v, output)
  /\ call' = Call("encode_uint", "u128", v, "", <<>>, Len(output))
  /\ UNCHANGED <<raw_byte_mode, input, result, frames>>

\* encode_sint(v, &mut out) on the buffer as it is.
AppendSint(v) ==
  /\ Len(output) < MaxBuffer
  /\ output' = encode_sint(v, output)
  /\ call' = Call("encode_sint", "i128", v, "", <<>>, Len(output))
  /\ UNCHANGED <<raw_byte_mode, input, result, frames>>

\* serialize_str(v) on the Serializer's output as it is.
AppendStr(v) ==
  /\ Len(output) < MaxBuffer
  /\ output' = serialize_str(v, output)
  /\ call' = Call("serialize_str", "String", v, "", <<>>, Len(output))
  /\ UNCHANGED <<raw_byte_mode, input, result, frames>>

\* SerializeSeq::serialize_element up to the element's own serialize call.
AppendSeqElement ==
  /\ Len(output) < MaxBuffer
  /\ output' = Append(output, 1)
  /\ call' = Call("serialize_element", "", <<>>, "", <<>>, Len(output))
  /\ UNCHANGED <<raw_byte_mode, input, result, frames>>

\* SerializeSeq::end
AppendSeqEnd ==
  /\ Len(output) < MaxBuffer
  /\ output' = Append(output, 0)
  /\ call' = Call("end", "", <<>>, "", <<>>, Len(output))
  /\ UNCHANGED <<raw_byte_mode, input, result, frames>>

NextAppend ==
  \/ \E v \in {FromNat(0, WordBytes), FromNat(128, WordBytes)} : AppendUint(v)
  \/ \E v \in {FromNat(0, WordBytes), FromNat(64, WordBytes),
               NotWord(FromNat(0, WordBytes)), NotWord(FromNat(64, WordBytes))} :
       AppendSint(v)
  \/ \E v \in {<<>>, <<0>>, <<65>>} : AppendStr(v)
  \/ AppendSeqElement
  \/ AppendSeqEnd

SpecAppend == Init /\ [][NextAppend]_vars

\* ───────────────────────── composite values ────────────────────────────

\* Most elements of a sequence input.
MaxSeq == 2

\* Mutant of serialize_seq: the terminator is 0x02.
RECURSIVE serialize_seq_end_two(_, _, _)
serialize_seq_end_two(elem, xs, out) ==
  IF xs = <<>> THEN Append(out, 2)
  ELSE LET tagged == Append(out, 1)
           o1 == IF elem = "i64" THEN serialize_signed(Head(xs), tagged)
                 ELSE serialize_str(Head(xs), tagged)
       IN  serialize_seq_end_two(elem, Tail(xs), o1)

\* Vec<T>::serialize through SerializeSeq, T = i64 or String:
\* serialize_element for each element of xs, then end.
RECURSIVE serialize_seq(_, _, _)
serialize_seq(elem, xs, out) ==
  IF xs = <<>> THEN Append(out, 0)
  ELSE LET tagged == Append(out, 1)
           o1 == IF elem = "i64" THEN serialize_signed(Head(xs), tagged)
                 ELSE serialize_str(Head(xs), tagged)
       IN  serialize_seq(elem, Tail(xs), o1)

\* Mutant of serialize_tuple: the fields are written in reverse order.
serialize_tuple_reversed(a, b, out) == serialize_signed(a, serialize_signed(b, out))

\* (i64, i64)::serialize through SerializeTuple (a tuple struct that is not
\* FixedBytes goes the same way): each field serialized, nothing else written.
serialize_tuple(a, b, out) == serialize_signed(b, serialize_signed(a, out))

\* Mutant of serialize_float: only the sign bit is flipped, whatever the sign.
serialize_float_xor_sign(v, out) == out \o [v EXCEPT ![1] = (@ + 128) % 256]

\* serialize_f32 / serialize_f64; v is v.to_bits() as big-endian bytes.
serialize_float(v, out) ==
  IF v[1] >= 128 THEN out \o NotWord(v)
  ELSE out \o [v EXCEPT ![1] = Or8(@, 128)]

\* enum E4 { V(i64, i64), Unit, Newtype(i64), Struct { a: i64, b: i64 } } under
\* #[derive(Serialize)]: serialize_tuple_variant, serialize_unit_variant,
\* serialize_newtype_variant or serialize_struct_variant, then the fields.
serialize_variant(e, out) ==
  LET variant_index ==
        CASE e.variant = "V"       -> 0
          [] e.variant = "Unit"    -> 1
          [] e.variant = "Newtype" -> 2
          [] e.variant = "Struct"  -> 3
      o1 == serialize_unsigned(FromNat(variant_index, 4), out)
  IN  CASE e.variant = "Unit"    -> o1
        [] e.variant = "Newtype" -> serialize_signed(e.fields[1], o1)
        [] OTHER -> serialize_signed(e.fields[2], serialize_signed(e.fields[1], o1))

\* value.serialize(&mut serializer) for a value of the shape.
serialize_value(shape, v, out) ==
  CASE shape = "Vec<i64>"         -> serialize_seq("i64", v, out)
    [] shape = "Vec<String>"      -> serialize_seq("String", v, out)
    [] shape = "(i64,i64)"        -> serialize_tuple(v[1], v[2], out)
    [] shape \in {"f32", "f64"}   -> serialize_float(v, out)
    [] shape = "E4"               -> serialize_variant(v, out)

\* The values given to to_bytes, shape by shape.  Signed integers on both
\* sides of the one-byte / two-byte edge, strings with the bytes 0x00 and
\* 0x01, floats of both signs with zero, subnormal, normal, infinite and NaN
\* patterns, and every variant of E4.
ValueInputs(shape) ==
  LET i64(n)  == FromNat(n, 8)
      neg(n)  == NotWord(FromNat(n - 1, 8))
      SeqInts == {i64(0), i64(63), i64(64), neg(1), neg(64), neg(65)}
      SeqStrs == {<<>>, <<0>>, <<1>>, <<65>>}
      TupleInts ==
        {i64(0), i64(63), i64(64), i64(8255), i64(8256),
         neg(1), neg(64), neg(65), neg(8256), neg(8257),
         Seq8([i \in 1..8 |-> IF i = 1 THEN 127 ELSE 255]),
         Seq8([i \in 1..8 |-> IF i = 1 THEN 128 ELSE 0])}
      Floats(n) ==
        {Seq8(<<a, b, c>> \o [i \in 1..(n - 3) |-> 0]) :
           a \in {0, 63, 127, 128, 191, 255},
           b \in {0, 127, 128, 240, 255},
           c \in {0, 1, 255}}
      EnumInts == {i64(0), i64(64), neg(1)}
  IN  CASE shape = "Vec<i64>"    -> Strings(SeqInts, MaxSeq)
        [] shape = "Vec<String>" -> Strings(SeqStrs, MaxSeq)
        [] shape = "(i64,i64)"   -> {<<a, b>> : a \in TupleInts, b \in TupleInts}
        [] shape = "f32"         -> Floats(4)
        [] shape = "f64"         -> Floats(8)
        [] shape = "E4" ->
             {[variant |-> "Unit", fields |-> <<>>]}
             \cup {[variant |-> "Newtype", fields |-> <<a>>] : a \in EnumInts}
             \cup {[variant |-> k, fields |-> <<a, b>>] :
                     k \in {"V", "Struct"}, a \in EnumInts, b \in EnumInts}

\* to_bytes(&v), v of the shape.
ToBytesValue(shape, v) ==
  /\ call.op = "new"
  /\ output' = serialize_value(shape, v, <<>>)
  /\ raw_byte_mode' = FALSE
  /\ input' = <<>>
  /\ result' = None
  /\ call' = Call("to_bytes", shape, v, "", <<>>, 0)
  /\ UNCHANGED frames

\* from_bytes::<T>(s), T = f32, f64 or E4, s the bytes to_bytes returned for
\* a value of T.
FromBytesValue ==
  /\ call.op = "to_bytes"
  /\ call.ty \in {"f32", "f64", "E4"}
  /\ LET r == from_bytes(call.ty, output)
     IN  /\ result' = r.res
         /\ input' = r.input
  /\ call' = Call("from_bytes", call.ty, call.v, call.ty, <<>>, 0)
  /\ UNCHANGED <<output, raw_byte_mode, frames>>

NextComposite ==
  \/ \E shape \in {"Vec<i64>", "Vec<String>", "(i64,i64)", "f32", "f64", "E4"} :
       \E v \in ValueInputs(shape) : ToBytesValue(shape, v)
  \/ FromBytesValue

SpecComposite == Init /\ [][NextComposite]_vars

\* ───────────────────────── claims ──────────────────────────────────────

\* C1: for every integer v of every supported type T,
\* from_bytes::<T>(to_bytes(&v)) returns Ok(v).
C1_IntRoundTrip ==
  (call.op = "from_bytes" /\ call.ty = call.src_ty /\ call.tail = <<>>)
    => (result.kind = "Ok" /\ result.value = call.v)

\* C2: for every u128 v and every byte string t, decode_uint(encode_uint(v) ++ t)
\* returns Ok((v, n)) with n the length of encode_uint(v).
C2_UintRoundTrip ==
  call.op = "decode_uint" => result = Ok(call.v, Len(Appended))

\* C2 witness: u128::MAX (the 18-byte form) decoded with bytes following it.
C2_Witness ==
  /\ call.op = "decode_uint"
  /\ call.v = MaxWord
  /\ call.tail # <<>>
  /\ result.kind = "Ok"
  /\ result.consumed = 18

\* C3: for every i128 v (i128::MIN and i128::MAX included) and every byte
\* string t, decode_sint(encode_sint(v) ++ t) returns Ok((v, n)) with n the
\* length of encode_sint(v).
C3_SintRoundTrip ==
  call.op = "decode_sint" => result = Ok(call.v, Len(Appended))

\* C3 witness: i128::MIN decoded with bytes following it.
C3_Witness ==
  /\ call.op = "decode_sint"
  /\ call.v = MinWord
  /\ call.tail # <<>>
  /\ result.kind = "Ok"
  /\ result.value = MinWord

\* C4: for all unsigned a < b, encode_uint(a) is strictly smaller than
\* encode_uint(b) in byte-wise lexicographic order, within one length level
\* and across levels.
C4_UintOrder ==
  call.op = "encode_uint" =>
    \A e \in UIntEncodings :
      /\ ULt(call.v, e[1]) => LexLess(Appended, e[2])
      /\ ULt(e[1], call.v) => LexLess(e[2], Appended)

\* C4 witness: an encoded value with a larger input on the same level and a
\* larger input on a higher level.
C4_Witness ==
  /\ call.op = "encode_uint"
  /\ \E e \in UIntEncodings :
       /\ ULt(call.v, e[1])
       /\ find_level(e[1], UNSIGNED_OFFSETS) = find_level(call.v, UNSIGNED_OFFSETS)
  /\ \E e \in UIntEncodings :
       /\ ULt(call.v, e[1])
       /\ find_level(e[1], UNSIGNED_OFFSETS) > find_level(call.v, UNSIGNED_OFFSETS)
       /\ find_level(call.v, UNSIGNED_OFFSETS) >= 8

\* C5: for all signed a < b, of any signs, encode_sint(a) is strictly smaller
\* than encode_sint(b) in byte-wise lexicographic order.
C5_SintOrder ==
  call.op = "encode_sint" =>
    \A e \in SIntEncodings :
      /\ SLt(call.v, e[1]) => LexLess(Appended, e[2])
      /\ SLt(e[1], call.v) => LexLess(e[2], Appended)

\* C5 witness: a negative value encoded, with a nonnegative input above it
\* and a more negative input below it, of a longer encoding.
C5_Witness ==
  /\ call.op = "encode_sint"
  /\ ~NonNegative(call.v)
  /\ \E e \in SIntEncodings : NonNegative(e[1]) /\ LexLess(Appended, e[2])
  /\ \E e \in SIntEncodings :
       /\ ~NonNegative(e[1])
       /\ SLt(e[1], call.v)
       /\ Len(e[2]) > Len(Appended)
       /\ LexLess(e[2], Appended)

\* C6: for types of the same signedness, w narrower than w', and every v of
\* type w, to_bytes(v) equals to_bytes(v widened to w') byte for byte.
C6_CrossWidthEqual ==
  (call.op = "to_bytes" /\ call.ty \in IntTypes) =>
    \A ty2 \in Wider(call.ty) :
      output = to_bytes_int(ty2, Widen(call.ty, call.v, ty2))

\* C6 witness: i8::MIN encoded (a multi-byte encoding of a negative value of
\* the narrowest type).
C6_Witness ==
  /\ call.op = "to_bytes"
  /\ call.ty = "i8"
  /\ call.v = <<128>>
  /\ Len(output) = 2
  /\ Wider(call.ty) # {}

\* C7: for types of the same signedness, w narrower than w', every a of type
\* w and b of type w', the byte-wise lexicographic comparison of to_bytes(a)
\* with to_bytes(b) equals the numeric comparison of a widened to w' with b.
C7_CrossWidthOrder ==
  (call.op = "to_bytes" /\ call.ty \in IntTypes) =>
    \A e \in TypedEncodings :
      e[1] \in Wider(call.ty) =>
        Compare(output, e[3]) = NumCompare(e[1], Widen(call.ty, call.v, e[1]), e[2])

\* C7 witness: a negative i8 encoded, with i64 inputs that compare below,
\* equal to and above it.
C7_Witness ==
  /\ call.op = "to_bytes"
  /\ call.ty = "i8"
  /\ call.v[1] >= 128
  /\ \A c \in {"lt", "eq", "gt"} :
       \E e \in TypedEncodings : e[1] = "i64" /\ Compare(output, e[3]) = c

\* C8: decoding with from_bytes into an integer type T the encoding of an
\* integer whose value lies outside the range of T fails with the
\* IntegerOverflow error.
C8_OverflowRejected ==
  (call.op = "from_bytes" /\ call.tail = <<>>
     /\ OutOfRange(call.src_ty, call.v, call.ty))
    => result = Err("IntegerOverflow")

C10_BytesOrder ==
  (call.op = "to_bytes" /\ call.ty = "bytes") =>
    \A e \in BytesEncodings :
      Compare(output, e[2]) = Compare(call.v, e[1])

\* C11: for any two strings s and t (strings with the byte 0x00 included), the
\* byte-wise lexicographic order of to_bytes(s) and to_bytes(t) equals the
\* byte-wise order of s and t; a string that extends a prefix P never sorts
\* before P.
C11_StrOrder ==
  (call.op = "to_bytes" /\ call.ty = "String") =>
    \A e \in StrEncodings :
      Compare(output, e[2]) = Compare(call.v, e[1])

\* C11 witness: a string P that ends in U+0000 is encoded, and among the
\* inputs are P followed by U+0000 and P followed by U+0001, both sorting
\* after P.
C11_Witness ==
  /\ call.op = "to_bytes"
  /\ call.ty = "String"
  /\ call.v # <<>>
  /\ call.v[Len(call.v)] = 0
  /\ \A c \in {0, 1} :
       \E e \in StrEncodings : e[1] = Append(call.v, c) /\ LexLess(output, e[2])

\* The payload d with 0x01 inserted after every byte equal to S.
Escaped(d, S) ==
  Flatten([i \in 1..Len(d) |-> IF d[i] = S THEN <<S, 1>> ELSE <<d[i]>>])

\* How many times the byte S occurs in d.
Occurrences(d, S) == Cardinality({i \in 1..Len(d) : d[i] = S})

\* How many times the pair S 0x01 occurs in enc.
EscapePairs(enc, S) ==
  Cardinality({i \in 1..(Len(enc) - 1) : enc[i] = S /\ enc[i + 1] = 1})

\* C12: for sentinel S (0x00 for strings, 0x7F for byte strings) and every
\* payload d, decoding the sentinel encoding of d returns d; the encoding is d
\* with 0x01 inserted after each byte equal to S, followed by S 0x00, and holds
\* the pair S 0x01 exactly once per occurrence of S in d.
C12_SentinelRoundTrip ==
  (call.op = "from_bytes" /\ call.ty \in {"String", "ByteBuf"}) =>
    LET S == IF call.ty = "String" THEN 0 ELSE BYTES_SENTINEL
    IN  /\ result = Ok(call.v, Len(output))
        /\ input = <<>>
        /\ output = Escaped(call.v, S) \o <<S, 0>>
        /\ EscapePairs(output, S) = Occurrences(call.v, S)

\* C12 witness: a byte string with the sentinel twice in a row has been
\* encoded and decoded.
C12_Witness ==
  /\ call.op = "from_bytes"
  /\ call.ty = "ByteBuf"
  /\ call.v = <<127, 127>>
  /\ output = <<127, 1, 127, 1, 127, 0>>
  /\ result.kind = "Ok"

\* Whether the input s breaks the framing of the shape at its first framing
\* byte: a tag or boolean byte other than 0x00 and 0x01, or a sentinel at the
\* start followed by a byte other than 0x00 and 0x01.
BadFraming(shape, s) ==
  IF shape \in {"bool", "Option<u8>", "Vec<u8>", "BTreeMap<u8,u8>"}
  THEN Len(s) >= 1 /\ s[1] \notin {0, 1}
  ELSE IF shape \in {"String", "ByteBuf"}
  THEN /\ Len(s) >= 2
       /\ s[1] = (IF shape = "String" THEN 0 ELSE BYTES_SENTINEL)
       /\ s[2] \notin {0, 1}
  ELSE FALSE

\* C13: a byte pattern that violates the framing rules (a byte other than
\* 0x00 or 0x01 after a sentinel, as the tag of an option, a sequence element
\* or a map entry, or as a boolean) makes decoding fail with the
\* InvalidEncoding error.
C13_InvalidEncoding ==
  (call.op = "from_bytes_raw" /\ BadFraming(call.ty, call.tail))
    => result = Err("InvalidEncoding")

\* C14: for every N and every array a of N bytes, to_bytes(FixedBytes(a)) is
\* exactly the N bytes of a in order, and from_bytes::<FixedBytes<N>> of those
\* bytes returns FixedBytes(a).
C14_FixedBytesVerbatim ==
  /\ (call.op = "to_bytes" /\ call.ty = "FixedBytes") => output = call.v
  /\ (call.op = "from_bytes" /\ call.ty = "FixedBytes") =>
       /\ output = call.v
       /\ result = Ok(call.v, Len(call.v))
       /\ input = <<>>

\* C14 witness: an array holding 0x7F and 0xFF has been encoded in two bytes
\* and decoded.
C14_Witness ==
  /\ call.op = "from_bytes"
  /\ call.ty = "FixedBytes"
  /\ call.v = <<127, 255>>
  /\ Len(output) = 2
  /\ result.kind = "Ok"

\* C15: raw_byte_mode is true exactly between the opening of a FixedBytes
\* frame and that frame's end; at the exit of every tuple-struct frame the
\* flag has the value it had when the frame was entered; every u8 outside a
\* FixedBytes frame is written as a varint (and every u8 inside one as one
\* byte); the flag is false when to_bytes returns.
C15_RawModeScoped ==
  /\ raw_byte_mode = InFixedBytes
  /\ call.op = "end" => raw_byte_mode = call.v.entered_with
  /\ call.op = "serialize_u8" =>
       Appended = (IF call.ty = "lexcode::FixedBytes" THEN call.v
                   ELSE encode_uint(ZeroExtend(call.v, WordBytes), <<>>))
  /\ call.op = "to_bytes" => ~raw_byte_mode

\* C15 witness: the u8 128 was written as the varint 80 00 in a derived
\* struct, after a FixedBytes field of that struct wrote 0xFF as one byte.
C15_Witness ==
  /\ call.op = "serialize_u8"
  /\ call.ty = "Outer"
  /\ output = <<255, 128, 0>>
  /\ ~raw_byte_mode

\* C16: encode_uint(v) is 1 byte for every v in 0..=127 and 2 bytes for
\* v = 128; encode_sint(v) is 1 byte for every v in -64..=63 and 2 bytes for
\* v = 64 and for v = -65.
C16_Compactness ==
  /\ call.op = "encode_uint" =>
       /\ ULt(call.v, FromNat(128, WordBytes)) => Len(Appended) = 1
       /\ call.v = FromNat(128, WordBytes) => Len(Appended) = 2
  /\ call.op = "encode_sint" =>
       /\ (SLt(call.v, FromNat(64, WordBytes))
             /\ SLt(NotWord(FromNat(64, WordBytes)), call.v)) => Len(Appended) = 1
       /\ call.v = FromNat(64, WordBytes) => Len(Appended) = 2
       /\ call.v = NotWord(FromNat(64, WordBytes)) => Len(Appended) = 2

\* C16 witness: -65 has been encoded in two bytes.
C16_Witness ==
  /\ call.op = "encode_sint"
  /\ call.v = NotWord(FromNat(64, WordBytes))
  /\ Len(Appended) = 2

\* C17 as stated: the length of encode_uint(v) is between 1 and 18 bytes for
\* every u128 v, and the length of encode_sint(v) is between 1 and 17 bytes
\* for every i128 v.
C17_LengthBounds ==
  /\ call.op = "encode_uint" => Len(Appended) \in 1..18
  /\ call.op = "encode_sint" => Len(Appended) \in 1..17

\* C17 as amended: the length of encode_uint(v) is between 1 and 18 bytes for
\* every u128 v, and the length of encode_sint(v) is between 1 and 18 bytes
\* for every i128 v; u128::MAX, i128::MIN and i128::MAX take 18 bytes.
C17_LengthBoundsSigned18 ==
  /\ call.op = "encode_uint" =>
       /\ Len(Appended) \in 1..18
       /\ call.v = MaxWord => Len(Appended) = 18
  /\ call.op = "encode_sint" =>
       /\ Len(Appended) \in 1..18
       /\ call.v \in {MinWord, NotWord(MinWord)} => Len(Appended) = 18

\* C17 witness: i128::MAX has been encoded, in 18 bytes.
C17_Witness ==
  /\ call.op = "encode_sint"
  /\ call.v = NotWord(MinWord)
  /\ Len(Appended) = 18

\* C18 as stated: to_bytes of the unsigned 32-bit value 128 yields exactly the
\* two bytes 0x80 0x80.
C18_U32_128_Is_80_80 ==
  (call.op = "to_bytes" /\ call.ty = "u32" /\ call.v = <<0, 0, 0, 128>>)
    => output = <<128, 128>>

\* C18 as amended: to_bytes of the unsigned 32-bit value 128 yields exactly
\* the two bytes 0x80 0x00 (128 is the first value of the two-byte level, and
\* the payload is the value less the offset of the level).
C18_U32_128_Is_80_00 ==
  (call.op = "to_bytes" /\ call.ty = "u32" /\ call.v = <<0, 0, 0, 128>>)
    => output = <<128, 0>>

\* C18 witness: to_bytes(&128u32) has returned two bytes.
C18_Witness ==
  /\ call.op = "to_bytes"
  /\ call.ty = "u32"
  /\ call.v = <<0, 0, 0, 128>>
  /\ Len(output) = 2

\* C19: for every value v and every strict prefix p (the empty one included)
\* of encode_uint(v), decode_uint(p) returns Err(Eof), and decode_sint(p)
\* returns Err(Eof) for every strict prefix p of encode_sint(v), of either
\* sign; nothing is read out of bounds.
C19_PrefixEof ==
  call.op \in {"decode_uint_prefix", "decode_sint_prefix"} => result = Err("Eof")

\* C19 witness: the first two bytes of the 18-byte encoding of a negative
\* value, and the first 17 bytes of the encoding of u128::MAX, are refused.
C19_Witness ==
  \/ /\ call.op = "decode_sint_prefix"
     /\ ~NonNegative(call.v)
     /\ Len(Appended) = 18
     /\ Len(input) = 2
     /\ result = Err("Eof")
  \/ /\ call.op = "decode_uint_prefix"
     /\ call.v = MaxWord
     /\ Len(input) = 17
     /\ result = Err("Eof")

\* Whether the input s ends before the shape is complete: s is empty, or a
\* string or byte string holds no sentinel, or only the sentinel.
Truncated(shape, s) ==
  \/ s = <<>>
  \/ /\ shape \in {"String", "ByteBuf"}
     /\ LET S == IF shape = "String" THEN 0 ELSE BYTES_SENTINEL
        IN  \/ \A i \in 1..Len(s) : s[i] # S
            \/ s = <<S>>

\* C20: when the input to from_bytes ends before the expected shape is
\* complete, the call returns the Eof error: it neither panics nor returns a
\* value.
C20_TruncatedEof ==
  (call.op = "from_bytes_raw" /\ Truncated(call.ty, call.tail))
    => result = Err("Eof")

\* C21: apart from Eof, varint decoding cannot fail: for every byte string at
\* least as long as the encoding its header bytes announce, decode_uint and
\* decode_sint return Ok with a value, and no addition, negation or cast in
\* them overflows (a build with overflow checks does not panic).
C21_DecodeTotal ==
  call.op \in {"decode_uint_raw", "decode_sint_raw"} => result.kind = "Ok"

\* C29: in decode_sint on an input whose first byte has bit 7 clear, the
\* length sint_total_len computes equals the number of bytes
\* decode_sint_magnitude consumes from the complemented copy: the assertion
\* consumed == total_len never fails, and the returned count is that length.
C29_TotalLenIsConsumed ==
  (call.op = "decode_sint_raw" /\ input[1] < 128) =>
    LET tl  == sint_total_len(And8(Not8(input[1]), 127), Tail(input), TRUE)
        buf == Seq8([i \in 1..tl.value |-> Not8(input[i])])
        r   == decode_sint_magnitude(FALSE, And8(buf[1], 127), Tail(buf))
    IN  /\ tl.kind = "Ok"
        /\ r.kind = "Ok"
        /\ r.consumed = tl.value
        /\ result.err # "assert"
        /\ result.kind = "Ok" => result.consumed = tl.value

\* C29 witness: a build with debug assertions has decoded an input of the
\* 18-byte negative form and returned 18.
C29_Witness ==
  /\ call.op = "decode_sint_raw"
  /\ call.ty = "debug"
  /\ input[1] = 0
  /\ input[2] = 0
  /\ result.kind = "Ok"
  /\ result.consumed = 18

\* C30: the sign bit decides the sign of the decoded value for every input:
\* when decode_sint returns Ok((v, n)) on an input whose first byte has bit 7
\* set, v >= 0, when bit 7 is clear, v < 0; and encode_sint(v) gives back the
\* first n input bytes.
C30_SignBitDecides ==
  (call.op = "decode_sint_raw" /\ result.kind = "Ok") =>
    /\ NonNegative(result.value) = (input[1] >= 128)
    /\ encode_sint(result.value, <<>>) = SubSeq(input, 1, result.consumed)

\* offset[L] of the unsigned levels: offset[0] = 0 and
\* offset[L + 1] = offset[L] + 2^data_bits[L].
RECURSIVE LevelOffset(_)
LevelOffset(L) ==
  IF L = 0 THEN ZeroWord
  ELSE AddWord(LevelOffset(L - 1), Pow2Word(UNSIGNED_DATA_BITS[L])).sum

\* C26: for every u128 v, encode_uint picks the smallest level L with
\* v < offset[L+1]; the number of leading 1-bits over the header bytes of the
\* result equals L, exactly L tail bytes follow the header, the total length
\* is L+1 for L <= 7 and L+2 for L >= 8, and the length never decreases as v
\* grows.
C26_UintLevels ==
  call.op = "encode_uint" =>
    LET e   == Appended
        L   == IF e[1] # 255 THEN LeadingOnes8(e[1]) ELSE 8 + LeadingOnes8(e[2])
        hdr == IF e[1] # 255 THEN 1 ELSE 2
    IN  /\ ~ULt(call.v, LevelOffset(L))
        /\ L < 16 => ULt(call.v, LevelOffset(L + 1))
        /\ Len(e) = hdr + L
        /\ Len(e) = (IF L <= 7 THEN L + 1 ELSE L + 2)
        /\ \A x \in UIntEncodings : ULt(call.v, x[1]) => Len(e) <= Len(x[2])

\* C26 witness: the first value of level 8 has been encoded: 0xFF, a second
\* header byte without leading 1-bits, ten bytes in all.
C26_Witness ==
  /\ call.op = "encode_uint"
  /\ call.v = UNSIGNED_OFFSETS[9]
  /\ Appended[1] = 255
  /\ Appended[2] < 128
  /\ Len(Appended) = 10

\* C27: for every negative i128 v, encode_sint(v) is the byte-by-byte bit
\* complement of encode_sint(-v-1), so both have the same length; bit 7 of the
\* first byte of encode_sint(v) is 1 exactly when v >= 0.
C27_NegativeIsComplement ==
  call.op = "encode_sint" =>
    /\ (Appended[1] >= 128) = NonNegative(call.v)
    /\ ~NonNegative(call.v) =>
         LET pos == encode_sint(NotWord(call.v), <<>>)
         IN  /\ Len(Appended) = Len(pos)
             /\ \A i \in 1..Len(pos) : Appended[i] = Not8(pos[i])

\* C27 witness: i128::MIN has been encoded after earlier content of the
\* buffer, in 18 bytes with bit 7 of the first clear.
C27_Witness ==
  /\ call.op = "encode_sint"
  /\ call.v = MinWord
  /\ call.start > 0
  /\ Len(Appended) = 18
  /\ Appended[1] < 128

\* C28: the encoder buffer is append-only: every encode operation leaves the
\* bytes that were in the buffer before it unchanged and does not shorten it;
\* the complement pass of encode_sint changes only the bytes the call appended.
C28_AppendOnly ==
  [][/\ Len(output') >= Len(output)
     /\ SubSeq(output', 1, Len(output)) = output]_vars

\* C28 witness: a negative value has been encoded into a buffer that held
\* three bytes or more.
C28_Witness ==
  /\ call.op = "encode_sint"
  /\ ~NonNegative(call.v)
  /\ call.start >= 3
  /\ Len(Appended) = 2

\* Element-wise lexicographic order of two sequences of the shape (Vec<T>:
\* Ord): the first differing element decides, a proper prefix is smaller.
SeqLess(shape, xs, ys) ==
  LET m == IF Len(xs) < Len(ys) THEN Len(xs) ELSE Len(ys)
      ElemLess(a, b) == IF shape = "Vec<i64>" THEN SLt(a, b) ELSE LexLess(a, b)
  IN  \/ /\ Len(xs) < Len(ys)
         /\ \A j \in 1..Len(xs) : xs[j] = ys[j]
      \/ \E i \in 1..m :
           /\ ElemLess(xs[i], ys[i])
           /\ \A j \in 1..(i - 1) : xs[j] = ys[j]

\* C22: a variable-length sequence is encoded as 0x01 followed by the element
\* encoding for each element, then 0x00; for any two sequences of the same
\* element type (signed integers or strings) the byte-wise lexicographic
\* order of their encodings equals the element-wise lexicographic order of
\* the sequences, and a sequence that extends another sorts after it.
C22_SeqOrder ==
  (call.op = "to_bytes" /\ call.ty \in {"Vec<i64>", "Vec<String>"}) =>
    LET xs == call.v
        enc(x) == IF call.ty = "Vec<i64>" THEN serialize_signed(x, <<>>)
                  ELSE serialize_str(x, <<>>)
    IN  /\ output = Flatten([i \in 1..Len(xs) |-> <<1>> \o enc(xs[i])]) \o <<0>>
        /\ \A ys \in ValueInputs(call.ty) :
             LET other == serialize_seq(IF call.ty = "Vec<i64>" THEN "i64" ELSE "String",
                                        ys, <<>>)
             IN  /\ Compare(output, other) =
                      (IF xs = ys THEN "eq"
                       ELSE IF SeqLess(call.ty, xs, ys) THEN "lt" ELSE "gt")
                 /\ (Len(xs) < Len(ys) /\ SubSeq(ys, 1, Len(xs)) = xs)
                      => LexLess(output, other)

\* C22 witness: to_bytes of the two strings "\0" and "" has returned: the
\* escaped 0x00 of the first string, its terminator, the tag of the second.
C22_Witness ==
  /\ call.op = "to_bytes"
  /\ call.ty = "Vec<String>"
  /\ call.v = << <<0>>, <<>> >>
  /\ output = <<1, 0, 1, 0, 0, 1, 0, 0, 0>>

\* C23: a fixed-arity tuple or struct is encoded as the plain concatenation of
\* its field encodings, and for any two pairs (a1, b1), (a2, b2) of signed
\* integers the byte-wise lexicographic order of the two encodings equals the
\* lexicographic order of the pairs, although the fields have variable length.
C23_TupleOrder ==
  (call.op = "to_bytes" /\ call.ty = "(i64,i64)") =>
    LET p == call.v IN
    /\ output = serialize_signed(p[1], <<>>) \o serialize_signed(p[2], <<>>)
    /\ \A q \in ValueInputs("(i64,i64)") :
         Compare(output, serialize_tuple(q[1], q[2], <<>>)) =
           (IF p = q THEN "eq"
            ELSE IF SLt(p[1], q[1]) \/ (p[1] = q[1] /\ SLt(p[2], q[2]))
                 THEN "lt" ELSE "gt")

\* C23 witness: to_bytes((64, -1)) has returned three bytes, two of the first
\* field and one of the second.
C23_Witness ==
  /\ call.op = "to_bytes"
  /\ call.ty = "(i64,i64)"
  /\ call.v = <<FromNat(64, 8), NotWord(FromNat(0, 8))>>
  /\ Len(output) = 3

\* A float bit pattern is a NaN: exponent all ones, mantissa not zero.
IsNaN(v) ==
  LET n == Len(v) IN
  /\ v[1] % 128 = 127
  /\ v[2] >= (IF n = 4 THEN 128 ELSE 240)
  /\ \/ v[2] % (IF n = 4 THEN 128 ELSE 16) # 0
     \/ \E i \in 3..n : v[i] # 0

\* x < y on sign-magnitude bit patterns: a set sign bit is below a clear one,
\* two clear ones compare by magnitude, two set ones by magnitude reversed.
SignMagLess(x, y) ==
  LET mag(v) == [v EXCEPT ![1] = @ % 128] IN
  IF x[1] >= 128
  THEN IF y[1] >= 128 THEN ULt(mag(y), mag(x)) ELSE TRUE
  ELSE IF y[1] >= 128 THEN FALSE ELSE ULt(mag(x), mag(y))

\* x < y on floats that are not NaN: the sign-magnitude order, with -0.0 and
\* +0.0 equal.
FloatLt(x, y) ==
  LET zero(v) == \A i \in 1..Len(v) : v[i] % (IF i = 1 THEN 128 ELSE 256) = 0
  IN  SignMagLess(x, y) /\ ~(zero(x) /\ zero(y))

\* C24: for any two floats x < y of the same width, neither of them NaN, the
\* big-endian bytes written for x are lexicographically smaller than those
\* written for y; on bit patterns the transform maps sign-magnitude order to
\* unsigned order, and the decoder's inverse transform returns the original
\* bit pattern.
C24_FloatOrder ==
  /\ (call.op = "to_bytes" /\ call.ty \in {"f32", "f64"}) =>
       \A y \in ValueInputs(call.ty) :
         LET other == serialize_float(y, <<>>) IN
         /\ (~IsNaN(call.v) /\ ~IsNaN(y) /\ FloatLt(call.v, y))
              => LexLess(output, other)
         /\ SignMagLess(call.v, y) <=> ULt(output, other)
  /\ (call.op = "from_bytes" /\ call.ty \in {"f32", "f64"}) =>
       /\ result = Ok(call.v, Len(call.v))
       /\ input = <<>>

\* C24 witness: from_bytes has returned a negative f64 from the bytes
\* to_bytes wrote for it.
C24_Witness ==
  /\ call.op = "from_bytes"
  /\ call.ty = "f64"
  /\ call.v[1] = 191
  /\ call.v[2] = 240
  /\ output[1] = 64
  /\ result.kind = "Ok"

\* C25: a tagged variant is encoded as the unsigned varint of its variant
\* index followed by the encoding of its payload, and it round-trips: for
\* every value e of an enum whose variants are unit, single-value, tuple or
\* record shaped, from_bytes(to_bytes(&e)) returns Ok(e).
C25_EnumRoundTrip ==
  (call.ty = "E4" /\ call.op \in {"to_bytes", "from_bytes"}) =>
    LET e == call.v
        index == CASE e.variant = "V" -> 0 [] e.variant = "Unit" -> 1
                   [] e.variant = "Newtype" -> 2 [] e.variant = "Struct" -> 3
        payload == Flatten([i \in 1..Len(e.fields) |->
                              serialize_signed(e.fields[i], <<>>)])
    IN  /\ output = encode_uint(FromNat(index, WordBytes), <<>>) \o payload
        /\ call.op = "from_bytes" =>
             /\ result.kind = "Ok"
             /\ result.value = e
             /\ input = <<>>

====
